---------------------------- MODULE Spec2Model ----------------------------
(***************************************************************************)
(* A model of kiui/cam.py: the look-at solver, the orbit <-> pose          *)
(* converter and the interactive OrbitCamera.                              *)
(*                                                                         *)
(* Numbers.  The code computes in IEEE floating point; the model computes  *)
(* in exact rational arithmetic, a number being a pair <<n, d>> in lowest  *)
(* terms with d > 0.  Rounding, overflow to inf and underflow to 0 are     *)
(* therefore outside the model: what is checked is the real-number         *)
(* geometry the code implements.                                           *)
(*                                                                         *)
(* Angles.  An angle x is carried by its half-angle tangent tan(x/2),      *)
(* a pair <<n, d>> with d >= 0 (d = 0 is 180 degrees), together with the   *)
(* unit it is expressed in.  Its cosine (d^2-n^2)/(d^2+n^2) and sine       *)
(* 2nd/(d^2+n^2) are rational, so trigonometry is exact for every angle    *)
(* of the model; arcsin and arctan2 are computed from their arguments and  *)
(* need a rational square root, which the enumerated inputs provide.       *)
(***************************************************************************)
EXTENDS Integers, Sequences, FiniteSets

VARIABLES W, H, radius, fovy, near, far, center, rot, up,  \* OrbitCamera
          last,     \* the call made last: [op, args]
          calls,    \* how many mutator calls were made
          fn        \* the free-function call under study: [pc, args, T, out]

vars == <<W, H, radius, fovy, near, far, center, rot, up, last, calls, fn>>

--------------------------------------------------------------------------
(* Exact rational arithmetic                                              *)

Abs(n) == IF n < 0 THEN -n ELSE n

RECURSIVE GCD(_, _)
GCD(a, b) == IF b = 0 THEN a ELSE GCD(b, a % b)

Q(n, d) ==
  LET g == GCD(Abs(n), Abs(d))
      s == IF d < 0 THEN -1 ELSE 1
  IN  <<(s * n) \div g, (s * d) \div g>>

Num(n) == <<n, 1>>
Zero   == <<0, 1>>
One    == <<1, 1>>

QNeg(a) == <<-a[1], a[2]>>

QAdd(a, b) ==
  LET g == GCD(a[2], b[2])
  IN  Q(a[1] * (b[2] \div g) + b[1] * (a[2] \div g), a[2] * (b[2] \div g))

QSub(a, b) == QAdd(a, QNeg(b))

QMul(a, b) ==
  LET g1 == GCD(Abs(a[1]), b[2])
      g2 == GCD(Abs(b[1]), a[2])
  IN  Q((a[1] \div g1) * (b[1] \div g2), (a[2] \div g2) * (b[2] \div g1))

\* b # 0
QDiv(a, b) ==
  QMul(a, IF b[1] > 0 THEN <<b[2], b[1]>> ELSE <<-b[2], -b[1]>>)

QLt(a, b) == QSub(a, b)[1] < 0
QLe(a, b) == QSub(a, b)[1] <= 0
QAbs(a)   == <<Abs(a[1]), a[2]>>

\* a ** k for an integer k (a # 0 when k < 0)
RECURSIVE QPow(_, _)
QPow(a, k) ==
  IF k = 0 THEN One
  ELSE IF k < 0 THEN QDiv(One, QPow(a, -k))
  ELSE QMul(a, QPow(a, k - 1))

\* floor of the square root of a natural number, by bisection on lo..hi
RECURSIVE ISqrtIn(_, _, _)
ISqrtIn(n, lo, hi) ==
  IF lo >= hi THEN lo
  ELSE LET mid == (lo + hi + 1) \div 2
       IN  IF mid <= n \div mid THEN ISqrtIn(n, mid, hi)
           ELSE ISqrtIn(n, lo, mid - 1)

ISqrt(n) == IF n = 0 THEN 0 ELSE ISqrtIn(n, 1, n)

IsSquare(n) == ISqrt(n) * ISqrt(n) = n

\* whether a >= 0 has a rational square root
HasSqrt(a) == a[1] >= 0 /\ IsSquare(a[1]) /\ IsSquare(a[2])

\* the square root of a, for HasSqrt(a)
QSqrt(a) == <<ISqrt(a[1]), ISqrt(a[2])>>

--------------------------------------------------------------------------
(* Vectors and matrices: sequences of numbers, sequences of rows          *)

RECURSIVE QSum(_)
QSum(s) == IF s = <<>> THEN Zero ELSE QAdd(Head(s), QSum(Tail(s)))

\* the sequence f[1], ..., f[n], each element computed once
RECURSIVE SeqOf(_, _)
SeqOf(f, n) == IF n = 0 THEN <<>> ELSE Append(SeqOf(f, n - 1), f[n])

Vec(x, y, z)  == <<Num(x), Num(y), Num(z)>>
VAdd(u, v)    == SeqOf([i \in 1..Len(u) |-> QAdd(u[i], v[i])], Len(u))
VSub(u, v)    == SeqOf([i \in 1..Len(u) |-> QSub(u[i], v[i])], Len(u))
VScale(a, v)  == SeqOf([i \in 1..Len(v) |-> QMul(a, v[i])], Len(v))
Dot(u, v)     == QSum(SeqOf([i \in 1..Len(u) |-> QMul(u[i], v[i])], Len(u)))

\* np.cross
Cross(u, v) ==
  << QSub(QMul(u[2], v[3]), QMul(u[3], v[2])),
     QSub(QMul(u[3], v[1]), QMul(u[1], v[3])),
     QSub(QMul(u[1], v[2]), QMul(u[2], v[1])) >>

\* the n x n matrix with entries f[i][j]
MatOf(f, n) == SeqOf([i \in 1..n |-> SeqOf(f[i], n)], n)

\* np.eye(n)
Eye(n) ==
  MatOf([i \in 1..n |-> [j \in 1..n |-> IF i = j THEN One ELSE Zero]], n)

Col(M, j)    == SeqOf([i \in 1..Len(M) |-> M[i][j]], Len(M))
Transpose(M) == SeqOf([i \in 1..Len(M) |-> Col(M, i)], Len(M))

\* A @ B, for square matrices
MatMul(A, B) ==
  LET Bt == Transpose(B)
  IN  MatOf([i \in 1..Len(A) |-> [j \in 1..Len(A) |-> Dot(A[i], Bt[j])]],
            Len(A))

\* M @ v
MatVec(M, v) == SeqOf([i \in 1..Len(M) |-> Dot(M[i], v)], Len(M))

MAdd(A, B)   == SeqOf([i \in 1..Len(A) |-> VAdd(A[i], B[i])], Len(A))
MScale(a, M) == SeqOf([i \in 1..Len(M) |-> VScale(a, M[i])], Len(M))

\* np.stack([c1, c2, c3], axis=1): the vectors become the columns
StackCols(c1, c2, c3) ==
  SeqOf([i \in 1..3 |-> <<c1[i], c2[i], c3[i]>>], 3)

Det3(M) == Dot(M[1], Cross(M[2], M[3]))

\* the upper-left 3x3 block and the translation column of a 4x4 matrix
Block3(T) == MatOf([i \in 1..3 |-> [j \in 1..3 |-> T[i][j]]], 3)
Trans3(T) == <<T[1][4], T[2][4], T[3][4]>>

--------------------------------------------------------------------------
(* np.linalg.inv: Gauss-Jordan elimination with partial pivoting of       *)
(* [A | B], started with B = identity.  Singular is the value returned    *)
(* where the library raises LinAlgError.                                  *)

Singular == <<>>

SwapRows(M, a, b) ==
  SeqOf([i \in 1..Len(M) |->
           IF i = a THEN M[b] ELSE IF i = b THEN M[a] ELSE M[i]], Len(M))

\* row k scaled to a unit pivot, then cleared from every other row
Eliminate(M, A, k) ==
  LET rowk == VScale(QDiv(One, A[k][k]), M[k])
  IN  SeqOf([i \in 1..Len(M) |->
               IF i = k THEN rowk ELSE VSub(M[i], VScale(A[i][k], rowk))],
            Len(M))

RECURSIVE GaussJordan(_, _, _)
GaussJordan(A, B, k) ==
  IF k > Len(A) THEN B
  ELSE IF \A i \in k..Len(A) : A[i][k] = Zero THEN Singular
  ELSE LET p  == CHOOSE i \in k..Len(A) :
                   /\ A[i][k] # Zero
                   /\ \A j \in k..Len(A) : QLe(QAbs(A[j][k]), QAbs(A[i][k]))
           A1 == SwapRows(A, k, p)
           B1 == SwapRows(B, k, p)
       IN  GaussJordan(Eliminate(A1, A1, k), Eliminate(B1, A1, k), k + 1)

Inv(M) == GaussJordan(M, Eye(Len(M)), 1)

--------------------------------------------------------------------------
(* Angles and trigonometry                                                *)

\* the angle with half-angle tangent n/d, in the given unit
Angle(unit, n, d) == [unit |-> unit, h |-> <<n, d>>]

deg2rad(x) == [unit |-> "rad", h |-> x.h]
rad2deg(x) == [unit |-> "deg", h |-> x.h]

\* -x (180 degrees is its own negative on the circle)
AngNeg(x) ==
  [unit |-> x.unit, h |-> IF x.h[2] = 0 THEN x.h ELSE <<-x.h[1], x.h[2]>>]

\* np.cos, np.sin of an angle in radians
cos(x) ==
  Q(x.h[2] * x.h[2] - x.h[1] * x.h[1], x.h[2] * x.h[2] + x.h[1] * x.h[1])
sin(x) ==
  Q(2 * x.h[1] * x.h[2], x.h[2] * x.h[2] + x.h[1] * x.h[1])

\* np.tan(x / 2), for x # 180 degrees
tan_half(x) == Q(x.h[1], x.h[2])

\* the angle (radians) whose half-angle tangent is the number t
FromHalfTan(t) == [unit |-> "rad", h |-> t]

\* np.arcsin(s), -1 <= s <= 1: the angle in [-90, 90] degrees with sine s
arcsin(s) ==
  FromHalfTan(QDiv(s, QAdd(One, QSqrt(QSub(One, QMul(s, s))))))

\* np.arctan2(y, x): the angle in (-180, 180] of the point (x, y)
arctan2(y, x) ==
  LET r == QSqrt(QAdd(QMul(x, x), QMul(y, y)))
  IN  IF QAdd(r, x) = Zero
      THEN (IF r = Zero THEN FromHalfTan(Zero) ELSE FromHalfTan(<<1, 0>>))
      ELSE FromHalfTan(QDiv(y, QAdd(r, x)))

\* whether arcsin(s) and arctan2(y, x) are numbers of the model
ArcsinExact(s)     == HasSqrt(QSub(One, QMul(s, s)))
Arctan2Exact(y, x) == HasSqrt(QAdd(QMul(x, x), QMul(y, y)))

--------------------------------------------------------------------------
(* kiui.op, used by look_at                                               *)

\* np.linalg.norm
norm(v) == QSqrt(Dot(v, v))

\* whether v can be normalised in the model: nonzero, of rational length
Normalizable(v) == Dot(v, v) # Zero /\ HasSqrt(Dot(v, v))

\* safe_normalize(x): x / |x|
safe_normalize(x) == VScale(QDiv(One, norm(x)), x)

--------------------------------------------------------------------------
(* The free functions                                                     *)

Origin  == Vec(0, 0, 0)
WorldUp == Vec(0, 1, 0)

\* look_at(campos, target, opengl): columns [right, up, forward]
look_at(campos, target, opengl) ==
  IF ~opengl
  THEN LET forward_vector == safe_normalize(VSub(target, campos))
           right_vector   == safe_normalize(Cross(forward_vector, WorldUp))
           up_vector      == safe_normalize(Cross(right_vector, forward_vector))
       IN  StackCols(right_vector, up_vector, forward_vector)
  ELSE LET forward_vector == safe_normalize(VSub(campos, target))
           right_vector   == safe_normalize(Cross(WorldUp, forward_vector))
           up_vector      == safe_normalize(Cross(forward_vector, right_vector))
       IN  StackCols(right_vector, up_vector, forward_vector)

\* look_at returns numbers (no division by a zero length) for these inputs
LookAtDefined(campos, target) ==
  LET d == VSub(campos, target)
  IN  /\ Normalizable(d)
      /\ Normalizable(Cross(WorldUp, safe_normalize(d)))

\* the 4x4 matrix with rotation block R and translation column t
Compose(R, t) ==
  MatOf([i \in 1..4 |-> [j \in 1..4 |->
           IF i <= 3 /\ j <= 3 THEN R[i][j]
           ELSE IF i <= 3 THEN t[i]
           ELSE IF j = 4 THEN One ELSE Zero]], 4)

\* the camera position on the sphere of the given radius about the origin
OrbitPosition(elevation, azimuth, r) ==
  << QMul(QMul(r, cos(elevation)), sin(azimuth)),
     QNeg(QMul(r, sin(elevation))),
     QMul(QMul(r, cos(elevation)), cos(azimuth)) >>

orbit_camera(elevation, azimuth, r, is_degree, target, opengl) ==
  LET el     == IF is_degree THEN deg2rad(elevation) ELSE elevation
      az     == IF is_degree THEN deg2rad(azimuth) ELSE azimuth
      campos == VAdd(OrbitPosition(el, az, r), target)
  IN  Compose(look_at(campos, target, opengl), campos)

\* faulty variant: the elevation recovered without the sign of -campos[1]
undo_orbit_camera_unsigned(T, is_degree) ==
  LET campos    == Trans3(T)
      r         == norm(campos)
      elevation == arcsin(QDiv(campos[2], r))
      azimuth   == arctan2(campos[1], campos[3])
  IN  IF is_degree
      THEN <<rad2deg(elevation), rad2deg(azimuth), r>>
      ELSE <<elevation, azimuth, r>>

undo_orbit_camera(T, is_degree) ==
  LET campos    == Trans3(T)
      r         == norm(campos)
      elevation == arcsin(QDiv(QNeg(campos[2]), r))
      azimuth   == arctan2(campos[1], campos[3])
  IN  IF is_degree
      THEN <<rad2deg(elevation), rad2deg(azimuth), r>>
      ELSE <<elevation, azimuth, r>>

\* undo_orbit_camera(T) stays within the numbers of the model
UndoExact(T) ==
  LET campos == Trans3(T)
  IN  /\ Normalizable(campos)
      /\ ArcsinExact(QDiv(QNeg(campos[2]), norm(campos)))
      /\ Arctan2Exact(campos[1], campos[3])

get_perspective(fov, aspect, n, f) ==
  LET y == tan_half(deg2rad(fov))
  IN  << <<QDiv(One, QMul(y, aspect)), Zero, Zero, Zero>>,
         <<Zero, QDiv(QNeg(One), y), Zero, Zero>>,
         <<Zero, Zero, QDiv(QNeg(QAdd(f, n)), QSub(f, n)),
           QDiv(QNeg(QMul(Num(2), QMul(f, n))), QSub(f, n))>>,
         <<Zero, Zero, QNeg(One), Zero>> >>

--------------------------------------------------------------------------
(* scipy.spatial.transform.Rotation, as used by OrbitCamera: a rotation   *)
(* is held as its 3x3 matrix                                              *)

\* the cross-product matrix [k]x of the axis k
Skew(k) ==
  << <<Zero, QNeg(k[3]), k[2]>>,
     <<k[3], Zero, QNeg(k[1])>>,
     <<QNeg(k[2]), k[1], Zero>> >>

\* Rotation.from_rotvec(axis * angle) for a unit axis: the rotation about
\* axis by angle, I + sin(angle) K + (1 - cos(angle)) K^2.  The axes orbit
\* passes, up = (0, 1, 0) and a column of rot, are unit vectors.
Rotation_from_rotvec(axis, angle) ==
  LET K == Skew(axis)
  IN  MAdd(Eye(3), MAdd(MScale(sin(angle), K),
                        MScale(QSub(One, cos(angle)), MatMul(K, K))))

\* Rotation.from_matrix of a proper rotation matrix, and r.as_matrix()
Rotation_from_matrix(M) == M
Rotation_as_matrix(r)   == r

\* p * q: q is applied first
Rotation_mul(p, q) == MatMul(p, q)

--------------------------------------------------------------------------
(* OrbitCamera: derived accessors                                         *)

\* the pose of a camera with the given rot, radius and center:
\* res = eye(4); res[2, 3] = radius; res = rot4 @ res; res[:3, 3] -= center
PoseOf(rot_, radius_, center_) ==
  LET res  == Compose(Eye(3), <<Zero, Zero, radius_>>)
      rot4 == Compose(Rotation_as_matrix(rot_), Origin)
      res2 == MatMul(rot4, res)
  IN  Compose(Block3(res2), VSub(Trans3(res2), center_))

pose == PoseOf(rot, radius, center)

campos == Trans3(pose)

\* faulty variant: the inverse taken to be the transpose, as for a pure rotation
view_transposed == Transpose(pose)

view == Inv(pose)

fovx == FromHalfTan(QMul(tan_half(fovy), Q(W, H)))

perspective ==
  LET y      == tan_half(fovy)
      aspect == Q(W, H)
  IN  << <<QDiv(One, QMul(y, aspect)), Zero, Zero, Zero>>,
         <<Zero, QDiv(QNeg(One), y), Zero, Zero>>,
         <<Zero, Zero, QDiv(QNeg(QAdd(far, near)), QSub(far, near)),
           QDiv(QNeg(QMul(Num(2), QMul(far, near))), QSub(far, near))>>,
         <<Zero, Zero, QNeg(One), Zero>> >>

\* faulty variant: the focal length taken from the width
intrinsics_focal_from_width ==
  LET focal == QDiv(Num(W), QMul(Num(2), tan_half(fovy)))
  IN  <<focal, focal, Num(W \div 2), Num(H \div 2)>>

intrinsics ==
  LET focal == QDiv(Num(H), QMul(Num(2), tan_half(fovy)))
  IN  <<focal, focal, Num(W \div 2), Num(H \div 2)>>

mvp == MatMul(perspective, Inv(pose))

Accessors ==
  {"fovx", "campos", "pose", "view", "perspective", "intrinsics", "mvp"}

\* the value the accessor returns
Read(a) ==
  CASE a = "fovx"        -> fovx
    [] a = "campos"      -> campos
    [] a = "pose"        -> pose
    [] a = "view"        -> view
    [] a = "perspective" -> perspective
    [] a = "intrinsics"  -> intrinsics
    [] a = "mvp"         -> mvp

--------------------------------------------------------------------------
(* OrbitCamera: constructor and mutators.  Each is the method's effect on *)
(* the fields of the object.                                              *)

\* __init__(W, H, r, fovy, near, far)
OrbitCamera(W0, H0, r, fovy0, near0, far0) ==
  /\ W = W0
  /\ H = H0
  /\ radius = r
  /\ fovy = deg2rad(fovy0)
  /\ near = near0
  /\ far = far0
  /\ center = Origin
  /\ rot = Rotation_from_matrix(Eye(3))
  /\ up = WorldUp

\* A drag of dx pixels enters orbit only through the angle 0.05 * dx
\* degrees; a drag is given as that angle, and this is -0.05 * dx.
DragAngle(dx) == AngNeg(dx)

\* np.radians
radians(x) == deg2rad(x)

\* faulty variant: dx turns about side and dy about up
orbit_axes_swapped(dx, dy) ==
  LET side     == Col(Rotation_as_matrix(rot), 1)
      rotvec_x == Rotation_from_rotvec(side, radians(DragAngle(dx)))
      rotvec_y == Rotation_from_rotvec(up, radians(DragAngle(dy)))
  IN  /\ rot' = Rotation_mul(Rotation_mul(rotvec_x, rotvec_y), rot)
      /\ UNCHANGED <<W, H, radius, fovy, near, far, center, up>>

\* faulty variant: the rotation about side is applied last
orbit_side_last(dx, dy) ==
  LET side     == Col(Rotation_as_matrix(rot), 1)
      rotvec_x == Rotation_from_rotvec(up, radians(DragAngle(dx)))
      rotvec_y == Rotation_from_rotvec(side, radians(DragAngle(dy)))
  IN  /\ rot' = Rotation_mul(Rotation_mul(rotvec_y, rotvec_x), rot)
      /\ UNCHANGED <<W, H, radius, fovy, near, far, center, up>>

orbit(dx, dy) ==
  LET side     == Col(Rotation_as_matrix(rot), 1)
      rotvec_x == Rotation_from_rotvec(up, radians(DragAngle(dx)))
      rotvec_y == Rotation_from_rotvec(side, radians(DragAngle(dy)))
  IN  /\ rot' = Rotation_mul(Rotation_mul(rotvec_x, rotvec_y), rot)
      /\ UNCHANGED <<W, H, radius, fovy, near, far, center, up>>

\* faulty variant: radius *= 1.1 ** delta
scale_inverted(delta) ==
  /\ radius' = QMul(radius, QPow(Q(11, 10), delta))
  /\ UNCHANGED <<W, H, fovy, near, far, center, rot, up>>

\* radius *= 1.1 ** (-delta)
scale(delta) ==
  /\ radius' = QMul(radius, QPow(Q(11, 10), -delta))
  /\ UNCHANGED <<W, H, fovy, near, far, center, rot, up>>

\* center += 0.0005 * rot.as_matrix()[:3, :3] @ [dx, -dy, dz]
pan(dx, dy, dz) ==
  /\ center' = VAdd(center,
                 VScale(Q(5, 10000),
                        MatVec(Block3(Rotation_as_matrix(rot)),
                               Vec(dx, -dy, dz))))
  /\ UNCHANGED <<W, H, radius, fovy, near, far, rot, up>>

\* faulty variant: the intermediate position with y = +radius * sin(elevation)
from_angle_rot_y_up(elevation, azimuth, is_degree) ==
  LET el == IF is_degree THEN deg2rad(elevation) ELSE elevation
      az == IF is_degree THEN deg2rad(azimuth) ELSE azimuth
      p  == OrbitPosition(el, az, radius)
  IN  Rotation_from_matrix(look_at(<<p[1], QNeg(p[2]), p[3]>>, Origin, TRUE))

\* the rotation from_angle stores
from_angle_rot(elevation, azimuth, is_degree) ==
  LET el == IF is_degree THEN deg2rad(elevation) ELSE elevation
      az == IF is_degree THEN deg2rad(azimuth) ELSE azimuth
      campos0 == OrbitPosition(el, az, radius)
  IN  Rotation_from_matrix(look_at(campos0, Origin, TRUE))

\* faulty variant: snapping to an angle also recentres the camera
from_angle_recentering(elevation, azimuth, is_degree) ==
  /\ rot' = from_angle_rot(elevation, azimuth, is_degree)
  /\ center' = Origin
  /\ UNCHANGED <<W, H, radius, fovy, near, far, up>>

from_angle(elevation, azimuth, is_degree) ==
  /\ rot' = from_angle_rot(elevation, azimuth, is_degree)
  /\ UNCHANGED <<W, H, radius, fovy, near, far, center, up>>

--------------------------------------------------------------------------
(* Bounds and inputs                                                      *)

MaxCalls == 2     \* mutator calls in one session
MaxW     == 6     \* viewport sizes tried by SpecView
MaxH     == 6

None == "None"

Deg(n, d) == Angle("deg", n, d)

\* drags of 0, 1800, -1800 and 3600 pixels, each given as the angle
\* 0.05 * dx it stands for: 0, 90, -90 and 180 degrees.  Right angles keep
\* the entries of rot within denominators of 25 however long the session.
Drags == {Deg(0, 1), Deg(1, 1), Deg(-1, 1), Deg(1, 0)}

\* zoom ticks
Deltas == {-1, 0, 1}

\* pan drags (dx, dy, dz), in pixels
Pans == {<<2000, 0, 0>>, <<0, -2000, 4000>>}

\* snap angles (elevation, azimuth): about (36.9, 53.1), (-53.1, -143.1)
\* and (0, 90) degrees
Snaps == { <<Deg(1, 3), Deg(1, 2)>>, <<Deg(-1, 2), Deg(-3, 1)>>,
           <<Deg(0, 1), Deg(1, 1)>> }

\* vertical fields of view: 90 and about 53.1 degrees
Fovys == {Deg(1, 1), Deg(1, 2)}

\* fn.pc tells how far the free-function call under study has come:
\* "args" (inputs chosen), "posed" (T holds the pose), "undone" (out holds
\* what undo_orbit_camera returned)
NoCall == [pc |-> "none", args |-> None, T |-> None, out |-> None]

--------------------------------------------------------------------------
(* Spec: an interaction session with one OrbitCamera                      *)

Init ==
  /\ OrbitCamera(4, 3, Num(2), Deg(1, 1), Q(1, 100), Num(100))
  /\ last = [op |-> "__init__", args |-> <<>>]
  /\ calls = 0
  /\ fn = NoCall

Orbit ==
  /\ calls < MaxCalls
  /\ \E dx \in Drags, dy \in Drags :
       /\ orbit(dx, dy)
       /\ last' = [op |-> "orbit", args |-> <<dx, dy>>]
  /\ calls' = calls + 1
  /\ UNCHANGED fn

Scale ==
  /\ calls < MaxCalls
  /\ \E delta \in Deltas :
       /\ scale(delta)
       /\ last' = [op |-> "scale", args |-> <<delta>>]
  /\ calls' = calls + 1
  /\ UNCHANGED fn

Pan ==
  /\ calls < MaxCalls
  /\ \E p \in Pans :
       /\ pan(p[1], p[2], p[3])
       /\ last' = [op |-> "pan", args |-> p]
  /\ calls' = calls + 1
  /\ UNCHANGED fn

\* from_angle with non-degenerate arguments, in degrees (the default)
FromAngle ==
  /\ calls < MaxCalls
  /\ \E s \in Snaps :
       /\ LookAtDefined(OrbitPosition(deg2rad(s[1]), deg2rad(s[2]), radius),
                        Origin)
       /\ from_angle(s[1], s[2], TRUE)
       /\ last' = [op |-> "from_angle", args |-> s]
  /\ calls' = calls + 1
  /\ UNCHANGED fn

\* a frame is drawn: every derived accessor is read, none raises
ReadAccessors ==
  /\ \A a \in Accessors : Read(a) # Singular
  /\ last' = [op |-> "read", args |-> <<>>]
  /\ UNCHANGED <<W, H, radius, fovy, near, far, center, rot, up, calls, fn>>

Next == Orbit \/ Scale \/ Pan \/ FromAngle \/ ReadAccessors

Spec == Init /\ [][Next]_vars

--------------------------------------------------------------------------
(* SpecFn: one call of orbit_camera, then undo_orbit_camera on its result *)

\* half-angle tangents of the elevations and azimuths tried: elevations of
\* about -53.1, -36.9, 0, 36.9, 53.1 degrees and, outside (-90, 90),
\* 126.9 degrees; azimuths from about -143.1 to 180 degrees
ElevationsH == {<<-1, 2>>, <<-1, 3>>, <<0, 1>>, <<1, 3>>, <<1, 2>>, <<2, 1>>}
AzimuthsH   == {<<-3, 1>>, <<-1, 1>>, <<-1, 2>>, <<0, 1>>, <<1, 3>>,
                <<1, 1>>, <<2, 1>>, <<1, 0>>}
Radii       == {Q(1, 2), Num(1), Num(2), Num(10)}
Targets     == {Origin, Vec(1, 2, 3)}

\* the caller passes angles in the unit is_degree announces
UnitOf(is_degree) == IF is_degree THEN "deg" ELSE "rad"

InitFn ==
  /\ OrbitCamera(4, 3, Num(2), Deg(1, 1), Q(1, 100), Num(100))
  /\ last = [op |-> "__init__", args |-> <<>>]
  /\ calls = 0
  /\ \E eh \in ElevationsH, ah \in AzimuthsH, r \in Radii,
        is_degree \in BOOLEAN, target \in Targets, opengl \in BOOLEAN :
       fn = [pc |-> "args",
             args |-> [elevation |-> [unit |-> UnitOf(is_degree), h |-> eh],
                       azimuth   |-> [unit |-> UnitOf(is_degree), h |-> ah],
                       radius    |-> r,
                       is_degree |-> is_degree,
                       target    |-> target,
                       opengl    |-> opengl],
             T |-> None, out |-> None]

CallOrbitCamera ==
  /\ fn.pc = "args"
  /\ LookAtDefined(VAdd(OrbitPosition(fn.args.elevation, fn.args.azimuth,
                                      fn.args.radius), fn.args.target),
                   fn.args.target)
  /\ fn' = [fn EXCEPT !.pc = "posed",
                       !.T = orbit_camera(fn.args.elevation, fn.args.azimuth,
                                          fn.args.radius, fn.args.is_degree,
                                          fn.args.target, fn.args.opengl)]
  /\ UNCHANGED <<W, H, radius, fovy, near, far, center, rot, up, last, calls>>

CallUndoOrbitCamera ==
  /\ fn.pc = "posed"
  /\ UndoExact(fn.T)
  /\ \E is_degree \in BOOLEAN :
       fn' = [fn EXCEPT !.pc = "undone",
                        !.out = [is_degree |-> is_degree,
                                 ret |-> undo_orbit_camera(fn.T, is_degree)]]
  /\ UNCHANGED <<W, H, radius, fovy, near, far, center, rot, up, last, calls>>

NextFn == CallOrbitCamera \/ CallUndoOrbitCamera

SpecFn == InitFn /\ [][NextFn]_vars

--------------------------------------------------------------------------
(* SpecView: cameras of every small viewport, read but not moved          *)

ClipPlanes == {<<Q(1, 100), Num(100)>>, <<Q(1, 10), Num(1000)>>}

InitView ==
  /\ \E W0 \in 1..MaxW, H0 \in 1..MaxH, f \in Fovys, c \in ClipPlanes :
       OrbitCamera(W0, H0, Num(2), f, c[1], c[2])
  /\ last = [op |-> "__init__", args |-> <<>>]
  /\ calls = 0
  /\ fn = NoCall

NextView == ReadAccessors

SpecView == InitView /\ [][NextView]_vars

--------------------------------------------------------------------------
(* Notions the claims are stated in                                       *)

\* orthonormal columns and determinant +1
IsProperRotation(M) ==
  /\ MatMul(Transpose(M), M) = Eye(3)
  /\ Det3(M) = One

BottomRowOk(T) == T[4] = <<Zero, Zero, Zero, One>>

\* v turned about the unit axis k by the angle x (Rodrigues' formula on a
\* vector): v cos x + (k x v) sin x + k (k . v)(1 - cos x)
Turn(k, x, v) ==
  VAdd(VAdd(VScale(cos(x), v), VScale(sin(x), Cross(k, v))),
       VScale(QMul(Dot(k, v), QSub(One, cos(x))), k))

\* the matrix whose columns are those of M, each turned about k by x
TurnMatrix(k, x, M) ==
  StackCols(Turn(k, x, Col(M, 1)), Turn(k, x, Col(M, 2)),
            Turn(k, x, Col(M, 3)))

\* the squared distance between two points
Dist2(p, q) == Dot(VSub(p, q), VSub(p, q))

InElevationRange(x) == Abs(x.h[1]) < x.h[2]    \* -90 < x < 90 degrees
InAzimuthRange(x)   == x.h[2] > 0               \* -180 < x < 180 degrees

--------------------------------------------------------------------------
(* The claims                                                             *)

\* C1: in every reachable state of the camera, the view matrix is the
\* inverse of the pose of that state: pose @ view is the 4x4 identity.
C1_PoseTimesViewIsIdentity ==
  /\ view # Singular
  /\ MatMul(pose, view) = Eye(4)

\* C1 witness: the accessors were read on a camera that was turned and
\* panned away from its constructed state.
C1_Witness ==
  /\ last.op = "read"
  /\ rot # Eye(3)
  /\ center # Origin

\* C2 (as claimed): in every reachable state the camera position, the
\* translation column of pose, is at distance exactly radius from center.
C2_CamposAtRadiusFromCenter ==
  Dist2(campos, center) = QMul(radius, radius)

\* C3: for target = origin, elevation in (-90, 90), azimuth in (-180, 180)
\* and radius > 0, undo_orbit_camera(orbit_camera(e, a, r)) returns
\* (e, a, r), both calls taking the angles in the same unit.
C3_RoundTrip ==
  ( /\ fn.pc = "undone"
    /\ fn.args.target = Origin
    /\ InElevationRange(fn.args.elevation)
    /\ InAzimuthRange(fn.args.azimuth)
    /\ QLt(Zero, fn.args.radius)
    /\ fn.out.is_degree = fn.args.is_degree )
  => fn.out.ret = <<fn.args.elevation, fn.args.azimuth, fn.args.radius>>

\* C3 witness: a round trip from a negative elevation and an azimuth beyond
\* 90 degrees, at a radius other than 1, was made.
C3_Witness ==
  /\ fn.pc = "undone"
  /\ fn.args.target = Origin
  /\ fn.args.elevation.h = <<-1, 2>>
  /\ fn.args.azimuth.h = <<2, 1>>
  /\ fn.args.radius = Q(1, 2)
  /\ fn.args.is_degree
  /\ fn.out.is_degree

\* C4: after from_angle(e, a) the rotation block of pose is the rotation
\* block of orbit_camera(e, a, radius, target = origin); in particular on a
\* freshly constructed camera.
C4_FromAngleMatchesOrbitCamera ==
  last.op = "from_angle" =>
    Block3(pose) =
      Block3(orbit_camera(last.args[1], last.args[2], radius, TRUE,
                          Origin, TRUE))

\* C4 witness: from_angle was the first call on the constructed camera,
\* with an elevation and an azimuth off the axes.
C4_Witness ==
  /\ calls = 1
  /\ last.op = "from_angle"
  /\ last.args = <<Deg(-1, 2), Deg(-3, 1)>>

\* C5: from the identity rotation, orbit(dx, 0) leaves the y-component of
\* the camera's forward vector (third column of the rotation block of pose)
\* as it was before the call.
C5_YawKeepsPitch ==
  [][ ( /\ rot = Eye(3)
        /\ last'.op = "orbit"
        /\ last'.args[2] = Deg(0, 1) )
      => Col(Block3(pose), 3)[2] =
           Col(Block3(PoseOf(rot', radius', center')), 3)[2] ]_vars

\* C5 witness: orbit(dx, 0) with a quarter-turn drag dx was the first call,
\* and turned the forward vector.
C5_Witness ==
  /\ calls = 1
  /\ last.op = "orbit"
  /\ last.args = <<Deg(1, 1), Deg(0, 1)>>
  /\ Col(Block3(pose), 3) # Vec(0, 0, 1)

\* C6: on a camera of positive radius scale(1) strictly decreases radius,
\* scale(-1) strictly increases it and scale(0) leaves it unchanged, at
\* every step.
C6_ZoomMonotone ==
  [][ (last'.op = "scale" /\ QLt(Zero, radius)) =>
        /\ last'.args[1] =  1 => QLt(radius', radius)
        /\ last'.args[1] = -1 => QLt(radius, radius')
        /\ last'.args[1] =  0 => radius' = radius ]_vars

\* C6 witness: scale(1) was called twice in a row from the constructed
\* radius 2.
C6_Witness ==
  /\ calls = 2
  /\ last = [op |-> "scale", args |-> <<1>>]
  /\ radius = Q(200, 121)

\* C7 (as claimed): every pose orbit_camera returns for non-degenerate
\* angles has a proper rotation (orthonormal, determinant +1) as its
\* upper-left block and [0, 0, 0, 1] as its bottom row.
C7_OrbitCameraPoseIsRigid ==
  fn.pc # "args" /\ fn.pc # "none" =>
    IsProperRotation(Block3(fn.T)) /\ BottomRowOk(fn.T)

\* C8 (as claimed): intrinsics is (f, f, cx, cy) with f = H / (2 tan(fovy/2)),
\* cx the floor of W/2 and cy = H/2.
C8_IntrinsicsAsClaimed ==
  LET k == intrinsics
  IN  /\ k[1] = k[2]
      /\ QMul(k[1], QMul(Num(2), tan_half(fovy))) = Num(H)
      /\ k[3] = Num(W \div 2)
      /\ k[4] = Q(H, 2)

\* C8 (amended): intrinsics is (f, f, cx, cy) with f = H / (2 tan(fovy/2)),
\* cx the floor of W/2 and cy the floor of H/2.
C8_IntrinsicsFloorBoth ==
  LET k == intrinsics
  IN  /\ k[1] = k[2]
      /\ QMul(k[1], QMul(Num(2), tan_half(fovy))) = Num(H)
      /\ k[3][2] = 1 /\ 2 * k[3][1] <= W /\ W < 2 * k[3][1] + 2
      /\ k[4][2] = 1 /\ 2 * k[4][1] <= H /\ H < 2 * k[4][1] + 2

\* C8 witness: intrinsics was read on a camera of odd width and odd height.
C8_Witness ==
  /\ last.op = "read"
  /\ W = 5
  /\ H = 3

\* C9: orbit and from_angle change no field but rot, scale none but radius,
\* pan none but center, reading the accessors changes none; W, H, fovy,
\* near, far and up never change.
C9_FrameEffects ==
  [][ /\ UNCHANGED <<W, H, fovy, near, far, up>>
      /\ last'.op \in {"orbit", "from_angle"} => UNCHANGED <<radius, center>>
      /\ last'.op = "scale" => UNCHANGED <<rot, center>>
      /\ last'.op = "pan" => UNCHANGED <<rot, radius>>
      /\ last'.op = "read" => UNCHANGED <<rot, radius, center>> ]_vars

\* C9 witness: from_angle was called on a camera that had been panned.
C9_Witness ==
  /\ last.op = "from_angle"
  /\ center # Origin

\* C10: orbit(dx, dy) sets rot to R_up o R_side o rot_old: rot_old turned
\* about side, the first column of rot_old, by -0.05 dy degrees, and the
\* result turned about world up by -0.05 dx degrees.
C10_OrbitComposition ==
  [][ last'.op = "orbit" =>
        LET side_old == Col(Rotation_as_matrix(rot), 1)
            x_up     == deg2rad(AngNeg(last'.args[1]))
            x_side   == deg2rad(AngNeg(last'.args[2]))
        IN  Rotation_as_matrix(rot') =
              TurnMatrix(WorldUp, x_up,
                         TurnMatrix(side_old, x_side,
                                    Rotation_as_matrix(rot))) ]_vars

\* C10 witness: orbit with both drags a quarter turn, of opposite signs,
\* was called on a camera already turned off the axes by from_angle.
C10_Witness ==
  /\ calls = 2
  /\ last = [op |-> "orbit", args |-> <<Deg(1, 1), Deg(-1, 1)>>]
  /\ \E i \in 1..3, j \in 1..3 : rot[i][j][2] # 1

==========================================================================
